---- MODULE Spec2Model ----
(***************************************************************************)
(* betterls (src/src/main.rs): a directory lister.  main checks that the   *)
(* target exists, fetchfiles collects one record per direct child, and for *)
(* a child directory is_dir_empty and dir_size compute the size that       *)
(* convert_binary_units formats.                                           *)
(*                                                                         *)
(* The file system is the environment.  It is a finite set of nodes, each  *)
(* a regular file, a directory (with its entries in enumeration order), a  *)
(* symbolic link (with its target) or absent, plus a set of faults: a      *)
(* directory that cannot be opened, an entry whose enumeration yields Err, *)
(* a node whose metadata read fails.  The three system calls the program   *)
(* uses are modelled by what they do on that state:                        *)
(*   fs::read_dir          follows symbolic links in the path it is given, *)
(*   fs::metadata          follows symbolic links (stat),                  *)
(*   fs::symlink_metadata  does not (lstat).                               *)
(* The file system is constant during one call of fetchfiles; another      *)
(* process may change it between the two calls main makes for JSON output. *)
(*                                                                         *)
(* Not modelled, because no property below reads them: the "modified"      *)
(* column and the "???" fallback for names that are not valid text.        *)
(* Byte counts stay far below 2^53, so `b as f64` is exact, and far below  *)
(* 2^64, so `total +=` never wraps.                                        *)
(***************************************************************************)
EXTENDS Integers, Sequences, FiniteSets, TLC

VARIABLES
    fs,        \* the file system: [node : Nodes -> attributes, faults : set]
    json,      \* cli.json
    pc,        \* position of the running program
    call,      \* how many calls of fetchfiles main has made (line 36, line 43)
    files,     \* main's `files` (line 36)
    data,      \* fetchfiles' `data` (line 51)
    content,   \* fetchfiles' directory iterator: the items not yet yielded
    stack,     \* dir_size's activation records, innermost last
    arg,       \* the argument of a function called on its own
    ret,       \* the value a function called on its own returned
    output,    \* what was printed, in order
    changed    \* whether the file system changed during the run

vars == <<fs, json, pc, call, files, data, content, stack, arg, ret,
          output, changed>>

(***************************************************************************)
(* Bounds of the model.                                                    *)
(***************************************************************************)
\* Byte counts are sampled within this distance of 0 and of each threshold.
SampleRadius == 8
\* At most this many faults are present in a file system.
MaxFaults == 1
\* Depth at which the call stack overflows (the process aborts).
StackLimit == 5
\* Byte length of a symbolic link itself (the length of its target text).
LinkLen == 7
\* Byte length the file system reports for a directory itself.
DirLen == 4096

(***************************************************************************)
(* convert_binary_units (lines 102-113)                                    *)
(***************************************************************************)
KB == 1024
MB == 1024 * KB
GB == 1024 * MB

Digit(d) == CASE d = 0 -> "0" [] d = 1 -> "1" [] d = 2 -> "2" [] d = 3 -> "3"
              [] d = 4 -> "4" [] d = 5 -> "5" [] d = 6 -> "6" [] d = 7 -> "7"
              [] d = 8 -> "8" [] d = 9 -> "9"

\* format!("{b}") of an unsigned integer: its decimal digits, no padding.
RECURSIVE Decimal(_)
Decimal(n) == IF n < 10 THEN <<Digit(n)>>
              ELSE Decimal(n \div 10) \o <<Digit(n % 10)>>

\* rem * 100 = unit * quot + rest with 0 <= rest < unit, for rem < unit and
\* unit a multiple of 1024, computed in two halves so that no intermediate
\* value exceeds 31 bits.
Hundredths(rem, unit) ==
    LET u1 == unit \div 1024
        hi == rem \div 1024
        lo == rem % 1024
        q1 == hi * 100 + (lo * 100) \div 1024
        r1 == (lo * 100) % 1024
    IN  [quot |-> q1 \div u1, rest |-> (q1 % u1) * 1024 + r1]

\* format!("{:.2}", b as f64 / unit as f64): the quotient is exact (unit is a
\* power of two), and Rust prints it rounded to two decimals, ties to even.
Fixed2(b, unit) ==
    LET whole == b \div unit
        h     == Hundredths(b % unit, unit)
        up    == \/ 2 * h.rest > unit
                 \/ 2 * h.rest = unit /\ h.quot % 2 = 1
        frac  == IF up THEN h.quot + 1 ELSE h.quot
        w     == IF frac = 100 THEN whole + 1 ELSE whole
        f     == IF frac = 100 THEN 0 ELSE frac
    IN  Decimal(w) \o <<".", Digit(f \div 10), Digit(f % 10)>>

\* Variant: exclusive lower bounds.
AtLeastStrict(b, unit) == b > unit
\* the match guards `b if b >= GB`, `b if b >= MB`, `b if b >= KB`
AtLeast(b, unit) == b >= unit

convert_binary_units(size) ==
    IF AtLeast(size, GB) THEN Fixed2(size, GB) \o <<"G", "B">>
    ELSE IF AtLeast(size, MB) THEN Fixed2(size, MB) \o <<"M", "B">>
    ELSE IF AtLeast(size, KB) THEN Fixed2(size, KB) \o <<"K", "B">>
    ELSE Decimal(size) \o <<"B">>

(***************************************************************************)
(* The file system                                                         *)
(***************************************************************************)
Nodes == 1 .. 6
\* The listing target (`path`, line 33).
Root == 1

Absent == [kind |-> "absent", entries |-> <<>>]
File(n) == [kind |-> "file", len |-> n, entries |-> <<>>]
Dir(es) == [kind |-> "dir", len |-> DirLen, entries |-> es]
Link(t) == [kind |-> "symlink", len |-> LinkLen, target |-> t, entries |-> <<>>]

Range(s) == {s[i] : i \in 1 .. Len(s)}

\* io::Result: an error, or a value.
Err == [ok |-> FALSE]
Ok(v) == [ok |-> TRUE, val |-> v]

\* The node a path names once every symbolic link is followed; Err when the
\* chain dangles or loops (ENOENT, ELOOP).
RECURSIVE Follow(_, _, _)
Follow(f, n, fuel) ==
    IF f.node[n].kind = "absent" THEN Err
    ELSE IF f.node[n].kind # "symlink" THEN Ok(n)
    ELSE IF fuel = 0 THEN Err
    ELSE Follow(f, f.node[n].target, fuel - 1)

Resolve(f, n) == Follow(f, n, Cardinality(Nodes))

\* fs::exists(p): whether the path resolves, or Err when that cannot be told.
exists(f, n) ==
    IF <<"exists", n>> \in f.faults THEN Err ELSE Ok(Resolve(f, n).ok)

\* fs::symlink_metadata(p): the node itself.
symlink_metadata(f, n) ==
    IF f.node[n].kind = "absent" \/ <<"meta", n>> \in f.faults THEN Err
    ELSE Ok([is_dir |-> f.node[n].kind = "dir", len |-> f.node[n].len])

\* fs::metadata(p): the node the path resolves to.
metadata(f, n) ==
    LET r == Resolve(f, n)
    IN  IF ~r.ok \/ <<"meta", n>> \in f.faults \/ <<"meta", r.val>> \in f.faults
        THEN Err
        ELSE Ok([is_dir |-> f.node[r.val].kind = "dir", len |-> f.node[r.val].len])

\* fs::read_dir(p): Err when p does not resolve to a directory that can be
\* opened; else the items the iterator yields, in enumeration order, each
\* Ok(entry) or Err (the iterator's interface: an Err item may be followed
\* by further items).
read_dir(f, n) ==
    LET r == Resolve(f, n)
    IN  IF \/ ~r.ok
           \/ f.node[r.val].kind # "dir"
           \/ <<"unreadable", r.val>> \in f.faults
        THEN Err
        ELSE LET es == f.node[r.val].entries
             IN  Ok([i \in 1 .. Len(es) |->
                       IF <<"enum", es[i]>> \in f.faults THEN Err ELSE Ok(es[i])])

(***************************************************************************)
(* The file systems the program is run on.  Node 1 is the target; nodes 2  *)
(* and 3 are its possible children, 4 and 5 those of directory 3, 6 that   *)
(* of directory 5.  Node 3 and its subtree exist even when the target does *)
(* not list them (then they lie outside the target).                       *)
(***************************************************************************)
Tree(e1, a2, e3, a4, e5, a6) ==
    [n \in Nodes |->
       CASE n = 1 -> Dir(e1)
         [] n = 2 -> IF 2 \in Range(e1) THEN a2 ELSE Absent
         [] n = 3 -> Dir(e3)
         [] n = 4 -> IF 4 \in Range(e3) THEN a4 ELSE Absent
         [] n = 5 -> IF 5 \in Range(e3) THEN Dir(e5) ELSE Absent
         [] n = 6 -> IF 5 \in Range(e3) /\ 6 \in Range(e5) THEN a6 ELSE Absent]

\* The nodes a run can touch: those reachable from the target through
\* entries and link targets.
RECURSIVE Closure(_, _)
Closure(t, S) ==
    LET T == S \cup UNION {Range(t[n].entries) : n \in S}
                \cup {t[n].target : n \in {m \in S : t[m].kind = "symlink"}}
    IN  IF T = S THEN S ELSE Closure(t, T)

\* What cannot be touched is left out, so that no two trees differ only there.
Prune(t) == LET R == Closure(t, {Root})
            IN  [n \in Nodes |-> IF n \in R THEN t[n] ELSE Absent]

Trees ==
    {[n \in Nodes |-> Absent]} \cup
    {[n \in Nodes |-> IF n = Root THEN File(10) ELSE Absent]} \cup
    {Prune(Tree(e1, a2, e3, a4, e5, a6)) :
        e1 \in {<<>>, <<2>>, <<3>>, <<2, 3>>, <<3, 2>>},
        a2 \in {File(10), Dir(<<>>), Link(1), Link(2), Link(3), Link(6)},
        e3 \in {<<>>, <<4>>, <<5>>, <<4, 5>>},
        a4 \in {File(500), File(2048), Link(3), Link(4)},
        e5 \in {<<>>, <<6>>},
        a6 \in {File(300), Link(1)}}

\* The faults that can show in tree t.
FaultsOf(t) ==
    {<<"exists", Root>>} \cup
    {<<"unreadable", n>> : n \in {m \in Nodes : t[m].kind = "dir"}} \cup
    {<<k, n>> : k \in {"enum", "meta"},
                n \in {m \in Nodes \ {Root} : t[m].kind # "absent"}}

FileSystems ==
    UNION {{[node |-> t, faults |-> F] :
              F \in {G \in SUBSET FaultsOf(t) : Cardinality(G) <= MaxFaults}} :
           t \in Trees}

(***************************************************************************)
(* is_dir_empty (line 99)                                                  *)
(***************************************************************************)
\* Variant: the first Ok entry is looked for, as with .flatten().next().
is_dir_empty_flatten(f, p) ==
    LET r == read_dir(f, p)
    IN  IF ~r.ok THEN Err
        ELSE Ok(\A i \in 1 .. Len(r.val) : ~r.val[i].ok)
\* Ok(fs::read_dir(path)?.next().is_none()): `?` returns the error; next() is
\* None only when the iterator yields nothing, be it Ok or Err.
is_dir_empty(f, p) ==
    LET r == read_dir(f, p)
    IN  IF ~r.ok THEN Err ELSE Ok(Len(r.val) = 0)

(***************************************************************************)
(* dir_size (lines 80-95), one activation record per call in progress      *)
(***************************************************************************)
\* A call that has not yet opened its directory.
Frame(p) == [path |-> p, opened |-> FALSE, entries |-> <<>>, total |-> 0]

\* Variant: the first Err item ends the loop.
FlattenUntilErr(items) ==
    LET bad == {i \in 1 .. Len(items) : ~items[i].ok}
        n   == IF bad = {} THEN Len(items)
               ELSE (CHOOSE i \in bad : \A j \in bad : i <= j) - 1
    IN  [i \in 1 .. n |-> items[i].val]
\* entries.flatten() (line 83): the Ok items, in order.
Flatten(items) ==
    LET ok(x) == x.ok
        keep == SelectSeq(items, ok)
    IN  [i \in 1 .. Len(keep) |-> keep[i].val]

\* Variant: fs::metadata, which follows symbolic links.
EntryMetaFollowing(f, p) == metadata(f, p)
\* fs::symlink_metadata(&p) (line 85)
EntryMeta(f, p) == symlink_metadata(f, p)

Top == stack[Len(stack)]
SetTop(fr) == [stack EXCEPT ![Len(stack)] = fr]

\* line 82: let Ok(entries) = fs::read_dir(path), or fall through to `total`.
dir_size_open ==
    /\ pc = "dir_size"
    /\ ~Top.opened
    /\ LET r == read_dir(fs, Top.path)
       IN  stack' = SetTop([Top EXCEPT !.opened = TRUE,
                                       !.entries = IF r.ok THEN Flatten(r.val)
                                                   ELSE <<>>])
    /\ UNCHANGED <<fs, json, pc, call, files, data, content, arg, ret,
                   output, changed>>

\* lines 83-92: one turn of the loop.  A recursive call pushes a record; a
\* call deeper than the stack allows aborts the process.
dir_size_entry ==
    /\ pc = "dir_size"
    /\ Top.opened
    /\ Top.entries # <<>>
    /\ LET p    == Head(Top.entries)
           meta == EntryMeta(fs, p)
           rest == [Top EXCEPT !.entries = Tail(Top.entries)]
       IN  IF ~meta.ok THEN stack' = SetTop(rest) /\ pc' = pc
           ELSE IF meta.val.is_dir
           THEN IF Len(stack) >= StackLimit
                THEN stack' = stack /\ pc' = "stack_overflow"
                ELSE stack' = Append(SetTop(rest), Frame(p)) /\ pc' = pc
           ELSE /\ stack' = SetTop([rest EXCEPT !.total = rest.total + meta.val.len])
                /\ pc' = pc
    /\ UNCHANGED <<fs, json, call, files, data, content, arg, ret,
                   output, changed>>

FileMetadata(n, t, s) == [name |-> n, ftype |-> t, size |-> s]

\* Variant: data.insert(0, ...).
PushFront(d, rec) == <<rec>> \o d
\* data.push(...) (line 56)
Push(d, rec) == Append(d, rec)

\* line 94: return `total`, to the calling dir_size (line 87: total +=), to
\* fetchfiles (line 64), or, main having made no call of fetchfiles, to the
\* caller of a dir_size called on its own.
dir_size_return ==
    /\ pc = "dir_size"
    /\ Top.opened
    /\ Top.entries = <<>>
    /\ IF Len(stack) > 1
       THEN /\ stack' = [SubSeq(stack, 1, Len(stack) - 1) EXCEPT
                           ![Len(stack) - 1].total = @ + Top.total]
            /\ UNCHANGED <<pc, data, content, ret>>
       ELSE /\ stack' = <<>>
            /\ IF call = 0
               THEN /\ pc' = "dir_size_done"
                    /\ ret' = Top.total
                    /\ UNCHANGED <<data, content>>
               ELSE /\ data' = Push(data, FileMetadata(Head(content).val, "Directory",
                                          convert_binary_units(Top.total)))
                    /\ content' = Tail(content)
                    /\ pc' = "for_entry"
                    /\ ret' = ret
    /\ UNCHANGED <<fs, json, call, files, arg, output, changed>>

(***************************************************************************)
(* fetchfiles (lines 50-78)                                                *)
(***************************************************************************)
Now(s) == [recurse |-> FALSE, size |-> s]
Recurse == [recurse |-> TRUE]

\* Variant: a directory is sized like a file, by meta.len().
size_of_len(f, p, meta) == Now(convert_binary_units(meta.len))
\* lines 59-67: the `size` field of the record of child p, or the need to
\* call dir_size for it (line 64).
size_of(f, p, meta) ==
    IF meta.is_dir
    THEN LET e == is_dir_empty(f, p)
         IN  IF ~e.ok THEN Now(<<"0", "B">>)
             ELSE IF e.val THEN Now(<<"0", "B">>)
             ELSE Recurse
    ELSE Now(convert_binary_units(meta.len))

\* lines 51-52: data starts empty; the directory is opened, or the loop is
\* not entered at all.
fetchfiles_open ==
    /\ pc = "fetchfiles"
    /\ data' = <<>>
    /\ LET r == read_dir(fs, Root)
       IN  content' = IF r.ok THEN r.val ELSE <<>>
    /\ pc' = "for_entry"
    /\ UNCHANGED <<fs, json, call, files, stack, arg, ret, output, changed>>

\* lines 53-75: one turn of the loop.
fetchfiles_entry ==
    /\ pc = "for_entry"
    /\ content # <<>>
    /\ LET entry == Head(content)
           meta  == metadata(fs, entry.val)
       IN  IF ~entry.ok \/ ~meta.ok
           THEN content' = Tail(content) /\ UNCHANGED <<data, stack, pc>>
           ELSE LET sz == size_of(fs, entry.val, meta.val)
                IN  IF sz.recurse
                    THEN /\ stack' = <<Frame(entry.val)>>
                         /\ pc' = "dir_size"
                         /\ UNCHANGED <<data, content>>
                    ELSE /\ data' = Push(data, FileMetadata(entry.val,
                                      IF meta.val.is_dir THEN "Directory" ELSE "File",
                                      sz.size))
                         /\ content' = Tail(content)
                         /\ UNCHANGED <<stack, pc>>
    /\ UNCHANGED <<fs, json, call, files, arg, ret, output, changed>>

\* line 77: return `data`, to line 36 (let files = ...) or to line 43, which
\* prints its serialization.
fetchfiles_return ==
    /\ pc = "for_entry"
    /\ content = <<>>
    /\ IF call = 1
       THEN files' = data /\ pc' = "is_empty" /\ output' = output
       ELSE /\ output' = Append(output, [fmt |-> "json", rows |-> data])
            /\ pc' = "exit"
            /\ files' = files
    /\ UNCHANGED <<fs, json, call, data, content, stack, arg, ret, changed>>

(***************************************************************************)
(* main (lines 31-48)                                                      *)
(***************************************************************************)
Say(msg) == [fmt |-> "text", msg |-> msg]

\* Variant: the two messages exchanged.
path_message_swapped(r) ==
    IF ~r.ok THEN Say("Path does not exist.") ELSE Say("Error reading directory.")
\* lines 46-47: what is printed when the path is not listed.
path_message(r) ==
    IF ~r.ok THEN Say("Error reading directory.") ELSE Say("Path does not exist.")

\* lines 34-36, 46, 47
main_exists ==
    /\ pc = "main"
    /\ LET r == exists(fs, Root)
       IN  IF r.ok /\ r.val
           THEN pc' = "fetchfiles" /\ call' = 1 /\ output' = output
           ELSE /\ pc' = "exit"
                /\ call' = call
                /\ output' = Append(output, path_message(r))
    /\ UNCHANGED <<fs, json, files, data, content, stack, arg, ret, changed>>

\* Variant: the test for emptiness left out.
is_empty_never(v) == FALSE
\* files.is_empty() (line 37)
is_empty(v) == Len(v) = 0

\* lines 37-45: the empty message, the table, or the second call of
\* fetchfiles whose result line 43 prints.
main_render ==
    /\ pc = "is_empty"
    /\ IF is_empty(files)
       THEN /\ output' = Append(output, Say("The folder is empty"))
            /\ pc' = "exit"
            /\ call' = call
       ELSE IF json
       THEN pc' = "fetchfiles" /\ call' = 2 /\ output' = output
       ELSE /\ output' = Append(output, [fmt |-> "table", rows |-> files])
            /\ pc' = "exit"
            /\ call' = call
    /\ UNCHANGED <<fs, json, files, data, content, stack, arg, ret, changed>>

(***************************************************************************)
(* The environment: between main's two calls of fetchfiles another process *)
(* may move a child out of the target.                                     *)
(***************************************************************************)
Without(s, x) == LET keep(y) == y # x IN SelectSeq(s, keep)

fs_change ==
    /\ pc = "fetchfiles"
    /\ call = 2
    /\ ~changed
    /\ fs.node[Root].kind = "dir"
    /\ \E c \in Range(fs.node[Root].entries) :
         fs' = [fs EXCEPT !.node[Root].entries = Without(@, c)]
    /\ changed' = TRUE
    /\ UNCHANGED <<json, pc, call, files, data, content, stack, arg, ret, output>>

(***************************************************************************)
(* The program: one run of main on any file system, with either output.    *)
(***************************************************************************)
Init ==
    /\ fs \in FileSystems
    /\ json \in BOOLEAN
    /\ pc = "main"
    /\ call = 0
    /\ files = <<>>
    /\ data = <<>>
    /\ content = <<>>
    /\ stack = <<>>
    /\ arg = Root
    /\ ret = Err
    /\ output = <<>>
    /\ changed = FALSE

Next ==
    \/ main_exists
    \/ fetchfiles_open
    \/ fetchfiles_entry
    \/ fetchfiles_return
    \/ dir_size_open
    \/ dir_size_entry
    \/ dir_size_return
    \/ main_render
    \/ fs_change

Spec == Init /\ [][Next]_vars

\* The program takes its next step whenever it has one: main is sequential
\* and blocks on nothing but the file system calls, which return.
FairSpec == Spec /\ WF_vars(Next)

(***************************************************************************)
(* dir_size and is_dir_empty called on their own, on any path of any file  *)
(* system.                                                                 *)
(***************************************************************************)
is_dir_empty_call ==
    /\ pc = "is_dir_empty"
    /\ ret' = is_dir_empty(fs, arg)
    /\ pc' = "is_dir_empty_done"
    /\ UNCHANGED <<fs, json, call, files, data, content, stack, arg, output, changed>>

InitFn ==
    /\ fs \in {f \in FileSystems : <<"exists", Root>> \notin f.faults}
    /\ arg \in Nodes
    /\ \/ pc = "dir_size" /\ stack = <<Frame(arg)>>
       \/ pc = "is_dir_empty" /\ stack = <<>>
    /\ json = FALSE
    /\ call = 0
    /\ files = <<>>
    /\ data = <<>>
    /\ content = <<>>
    /\ ret = Err
    /\ output = <<>>
    /\ changed = FALSE

NextFn ==
    \/ dir_size_open
    \/ dir_size_entry
    \/ dir_size_return
    \/ is_dir_empty_call

SpecFn == InitFn /\ [][NextFn]_vars

\* A call in progress takes its next step.
FairSpecFn == SpecFn /\ WF_vars(NextFn)

(***************************************************************************)
(* convert_binary_units called on its own.                                 *)
(***************************************************************************)
Around(c) == {b \in c - SampleRadius .. c + SampleRadius : b >= 0}

\* Byte counts at zero, about each threshold, at a tie of the rounding
\* (1152 / 1024 = 1.125), just under the next unit, and at the 31-bit top.
SampleBytes ==
    Around(0) \cup Around(KB) \cup Around(MB) \cup Around(GB)
    \cup {1152, 2048, MB + MB \div 2, 2147483647}

convert_binary_units_call ==
    /\ pc = "convert_binary_units"
    /\ ret' = convert_binary_units(arg)
    /\ pc' = "convert_binary_units_done"
    /\ UNCHANGED <<fs, json, call, files, data, content, stack, arg, output, changed>>

InitUnits ==
    /\ fs = [node |-> [n \in Nodes |-> Absent], faults |-> {}]
    /\ arg \in SampleBytes
    /\ pc = "convert_binary_units"
    /\ stack = <<>>
    /\ json = FALSE
    /\ call = 0
    /\ files = <<>>
    /\ data = <<>>
    /\ content = <<>>
    /\ ret = Err
    /\ output = <<>>
    /\ changed = FALSE

NextUnits == convert_binary_units_call

SpecUnits == InitUnits /\ [][NextUnits]_vars

(***************************************************************************)
(* Properties of convert_binary_units, under SpecUnits                     *)
(***************************************************************************)
EndsWith(s, suffix) ==
    /\ Len(s) >= Len(suffix)
    /\ SubSeq(s, Len(s) - Len(suffix) + 1, Len(s)) = suffix

DigitValue(c) == CHOOSE d \in 0 .. 9 : Digit(d) = c

IsDigits(s) ==
    /\ Len(s) > 0
    /\ \A i \in 1 .. Len(s) : \E d \in 0 .. 9 : Digit(d) = s[i]
    /\ Len(s) > 1 => s[1] # "0"

RECURSIVE Parse(_)
Parse(s) == IF Len(s) = 0 THEN 0
            ELSE 10 * Parse(SubSeq(s, 1, Len(s) - 1)) + DigitValue(s[Len(s)])

\* C1: the unit is chosen by inclusive lower bounds on powers of 1024: the
\* result ends in "GB" iff b >= 1024^3, in "MB" iff 1024^2 <= b < 1024^3, in
\* "KB" iff 1024 <= b < 1024^2, and otherwise is the decimal integer b
\* followed by "B"; 0 gives "0B", 1023 "1023B", 1024 "1.00KB", 1048576
\* "1.00MB" and 1073741824 "1.00GB".
C1_UnitByInclusiveLowerBound ==
    pc = "convert_binary_units_done" =>
      /\ EndsWith(ret, <<"G", "B">>) <=> arg >= 1073741824
      /\ EndsWith(ret, <<"M", "B">>) <=> (1048576 <= arg /\ arg < 1073741824)
      /\ EndsWith(ret, <<"K", "B">>) <=> (1024 <= arg /\ arg < 1048576)
      /\ arg < 1024 =>
           /\ EndsWith(ret, <<"B">>)
           /\ IsDigits(SubSeq(ret, 1, Len(ret) - 1))
           /\ Parse(SubSeq(ret, 1, Len(ret) - 1)) = arg
      /\ arg = 0 => ret = <<"0", "B">>
      /\ arg = 1023 => ret = <<"1", "0", "2", "3", "B">>
      /\ arg = 1024 => ret = <<"1", ".", "0", "0", "K", "B">>
      /\ arg = 1048576 => ret = <<"1", ".", "0", "0", "M", "B">>
      /\ arg = 1073741824 => ret = <<"1", ".", "0", "0", "G", "B">>

\* Exactly 1024 bytes were formatted, as "1.00KB".
C1_Witness ==
    /\ pc = "convert_binary_units_done"
    /\ arg = 1024
    /\ ret = <<"1", ".", "0", "0", "K", "B">>

(***************************************************************************)
(* Properties of dir_size and is_dir_empty, under SpecFn and FairSpecFn    *)
(***************************************************************************)
Children(f, d) == Range(f.node[d].entries)

\* A real directory (not a link to one) that can be opened.
ReadableDir(f, d) ==
    /\ f.node[d].kind = "dir"
    /\ <<"unreadable", d>> \notin f.faults

\* The entries of d whose enumeration and own metadata read both succeed.
Seen(f, d) ==
    {e \in Children(f, d) : <<"enum", e>> \notin f.faults /\ <<"meta", e>> \notin f.faults}

\* The directories whose entries count for path p: the readable directory p
\* names, and every readable real subdirectory seen in one of them.
RECURSIVE Below(_, _)
Below(f, D) ==
    LET E == D \cup {e \in UNION {Seen(f, d) : d \in D} : ReadableDir(f, e)}
    IN  IF E = D THEN D ELSE Below(f, E)

Walked(f, p) ==
    LET r == Resolve(f, p)
    IN  IF r.ok /\ ReadableDir(f, r.val) THEN Below(f, {r.val}) ELSE {}

\* The non-directory entries seen in those directories.
Counted(f, p) ==
    {e \in UNION {Seen(f, d) : d \in Walked(f, p)} : f.node[e].kind # "dir"}

RECURSIVE SumOfLen(_, _)
SumOfLen(f, S) ==
    IF S = {} THEN 0
    ELSE LET e == CHOOSE x \in S : TRUE
         IN  f.node[e].len + SumOfLen(f, S \ {e})

OwnBytes(f, p) == SumOfLen(f, Counted(f, p))

\* C2: dir_size(d) returns the sum of the own byte lengths of all
\* non-directory entries found in d and in every real subdirectory reachable
\* from d through readable directories; what cannot be read contributes zero
\* and stops nothing else from being counted.
C2_DirSizeIsSumOfOwnLengths ==
    pc = "dir_size_done" => ret = OwnBytes(fs, arg)

\* dir_size ran on a directory holding a 500-byte file and a subdirectory
\* holding a 300-byte file, and returned 800.
C2_Witness ==
    /\ pc = "dir_size_done"
    /\ fs.node[arg].kind = "dir"
    /\ fs.node[arg].entries = <<4, 5>>
    /\ fs.node[4] = File(500)
    /\ fs.node[5] = Dir(<<6>>)
    /\ fs.node[6] = File(300)
    /\ fs.faults = {}
    /\ ret = 800

\* C3: dir_size terminates on every file system, also one where a symbolic
\* link in the traversed tree points at an ancestor or at itself: no call is
\* ever made on an entry that is a symbolic link, the stack never overflows,
\* and every call returns.
C3_DirSizeTerminates ==
    /\ [](/\ pc # "stack_overflow"
          /\ \A i \in 2 .. Len(stack) : fs.node[stack[i].path].kind = "dir")
    /\ (pc = "dir_size") ~> (pc = "dir_size_done")

\* dir_size returned from a directory that holds a symbolic link to that
\* directory itself, its ancestor.
C3_Witness ==
    /\ pc = "dir_size_done"
    /\ fs.node[arg].kind = "dir"
    /\ \E e \in Seen(fs, arg) :
         /\ fs.node[e].kind = "symlink"
         /\ fs.node[e].target = arg

\* Whether path p can be opened as a directory.
Opens(f, p) == Resolve(f, p).ok /\ ReadableDir(f, Resolve(f, p).val)

\* C6: is_dir_empty(p) returns Ok(true) iff directory p has zero entries of
\* any type, and returns the error when p cannot be opened for reading.
C6_EmptyIffNoEntries ==
    pc = "is_dir_empty_done" =>
      /\ ~Opens(fs, arg) <=> ~ret.ok
      /\ Opens(fs, arg) => (ret.val <=> Children(fs, Resolve(fs, arg).val) = {})

\* is_dir_empty ran on a directory whose single entry is an empty
\* subdirectory, and returned Ok(false).
C6_Witness ==
    /\ pc = "is_dir_empty_done"
    /\ fs.node[arg].kind = "dir"
    /\ Len(fs.node[arg].entries) = 1
    /\ fs.node[fs.node[arg].entries[1]] = Dir(<<>>)
    /\ ret = Ok(FALSE)

(***************************************************************************)
(* Properties of fetchfiles and main, under Spec and FairSpec              *)
(***************************************************************************)
\* A call of fetchfiles has just returned `rows`: the first to main's
\* `files`, the second to the JSON that line 43 prints.
Fetched(rows) ==
    \/ pc = "is_empty" /\ rows = files
    \/ pc = "exit" /\ call = 2 /\ rows = output[Len(output)].rows

\* The direct children of the target, in enumeration order (none when the
\* target cannot be enumerated).
Enumerated(f) ==
    IF Opens(f, Root) THEN f.node[Resolve(f, Root).val].entries ELSE <<>>

\* Child c is yielded by the enumeration and its metadata can be read.
Readable(f, c) == <<"enum", c>> \notin f.faults /\ metadata(f, c).ok

ReadableChildren(f) == LET ok(c) == Readable(f, c) IN SelectSeq(Enumerated(f), ok)

Names(rows) == [i \in 1 .. Len(rows) |-> rows[i].name]

\* C4: fetchfiles never fails and returns exactly one record for each direct
\* child whose enumeration and metadata read both succeed, none for any other
\* child, in the order in which the enumeration yielded those children.
C4_OneRecordPerReadableChildInOrder ==
    /\ pc # "stack_overflow"
    /\ \A rows \in {files} \cup {output[i].rows : i \in {j \in 1 .. Len(output) :
                                                         output[j].fmt = "json"}} :
         Fetched(rows) => Names(rows) = ReadableChildren(fs)

\* fetchfiles returned the record of the second of two children, the first
\* having failed its metadata read.
C4_Witness ==
    /\ pc = "is_empty"
    /\ Len(Enumerated(fs)) = 2
    /\ <<"meta", Enumerated(fs)[1]>> \in fs.faults
    /\ Names(files) = <<Enumerated(fs)[2]>>

\* The size the listing is to show for child c.
SizeShown(f, c) ==
    LET m == metadata(f, c).val
    IN  IF ~m.is_dir THEN convert_binary_units(m.len)
        ELSE IF ~Opens(f, c) THEN <<"0", "B">>
        ELSE IF Children(f, Resolve(f, c).val) = {} THEN <<"0", "B">>
        ELSE convert_binary_units(OwnBytes(f, c))

\* C5: the size field of every record is convert_binary_units(file length)
\* for a child reported as a non-directory and, for one reported as a
\* directory, "0B" if is_dir_empty says true, convert_binary_units(dir_size)
\* if it says false, and "0B" if it fails, the record still being emitted.
C5_SizeField ==
    pc = "is_empty" =>
      /\ \A i \in 1 .. Len(files) :
           /\ files[i].size = SizeShown(fs, files[i].name)
           /\ files[i].ftype = IF metadata(fs, files[i].name).val.is_dir
                               THEN "Directory" ELSE "File"
      /\ \A c \in Range(Enumerated(fs)) :
           Readable(fs, c) /\ metadata(fs, c).val.is_dir /\ ~Opens(fs, c)
             => \E i \in 1 .. Len(files) :
                  files[i] = FileMetadata(c, "Directory", <<"0", "B">>)

\* The listing of a 10-byte file and a directory holding one 2048-byte file:
\* "10B" and "2.00KB".
C5_Witness ==
    /\ pc = "is_empty"
    /\ fs.node[2] = File(10)
    /\ fs.node[3] = Dir(<<4>>)
    /\ fs.node[4] = File(2048)
    /\ files = <<FileMetadata(2, "File", <<"1", "0", "B">>),
                 FileMetadata(3, "Directory", <<"2", ".", "0", "0", "K", "B">>)>>

TargetExists(f) == exists(f, Root).ok /\ exists(f, Root).val

\* The one outcome of a run that has ended, the empty message standing for
\* `empty`.
Outcome(empty) ==
    /\ Len(output) = 1
    /\ IF ~exists(fs, Root).ok THEN output[1] = Say("Error reading directory.")
       ELSE IF ~exists(fs, Root).val THEN output[1] = Say("Path does not exist.")
       ELSE IF empty THEN output[1] = Say("The folder is empty")
       ELSE IF json THEN output[1].fmt = "json"
       ELSE output[1] = [fmt |-> "table", rows |-> files]
    /\ ~TargetExists(fs) => call = 0

\* C7 as stated: every run prints exactly one outcome, "The folder is empty"
\* when the target exists and has no entries and otherwise the listing.
C7_AsStated ==
    /\ pc # "stack_overflow"
    /\ pc # "exit" => output = <<>>
    /\ pc = "exit" /\ ~changed => Outcome(Children(fs, Root) = {})

\* C7 as amended: every run prints exactly one outcome: "Error reading
\* directory." if the existence check errors, "Path does not exist." if it
\* returns false, "The folder is empty" if the target exists and fetchfiles
\* returns no record, and otherwise the listing (table, or JSON when the json
\* flag is set); fetchfiles is not called unless the target exists.
C7_OneOutcome ==
    /\ [](/\ pc # "stack_overflow"
          /\ pc # "exit" => output = <<>>
          /\ pc = "exit" => Outcome(files = <<>>))
    /\ <>(pc = "exit")

\* A run ended with "The folder is empty" on a target that has an entry.
C7_Witness ==
    /\ pc = "exit"
    /\ output = <<Say("The folder is empty")>>
    /\ Children(fs, Root) # {}

\* C8: the size shown for a listed child never includes the bytes of a file
\* reachable only through a symbolic link: a child that is a symbolic link
\* is shown with at most its own link length.
C8_LinkTargetsNeverCounted ==
    pc = "is_empty" =>
      \A i \in 1 .. Len(files) :
        fs.node[files[i].name].kind = "symlink" =>
          \E n \in 0 .. LinkLen : files[i].size = convert_binary_units(n)

\* C9: the JSON array main prints serializes the very records main tested
\* for emptiness, so it is never empty.
C9_JsonIsTheTestedRecords ==
    pc = "exit" /\ Len(output) = 1 /\ output[1].fmt = "json" =>
      /\ output[1].rows = files
      /\ output[1].rows # <<>>

\* C10: when the target exists but cannot be enumerated as a directory, or
\* every child fails its enumeration or its metadata read, fetchfiles returns
\* an empty sequence and main prints "The folder is empty".
C10_NothingReadableIsEmpty ==
    TargetExists(fs) /\ ~changed
    /\ (~Opens(fs, Root) \/ \A c \in Children(fs, Root) : ~Readable(fs, c)) =>
      /\ pc = "is_empty" => files = <<>>
      /\ pc = "exit" => output = <<Say("The folder is empty")>>

\* A run on a target that is a regular file ended with the message.
C10_Witness ==
    /\ pc = "exit"
    /\ fs.node[Root].kind = "file"
    /\ call = 1
    /\ output = <<Say("The folder is empty")>>

====
